---- MODULE Spec2Model ----
(***************************************************************************)
(* Model of the ComPDFKit API client (compdfkit/client.py): the token      *)
(* cache of CPDFHttpClient, the HTTP requests every operation sends, the   *)
(* errors it raises, and the call sequence of the sample scripts.          *)
(*                                                                         *)
(* Conventions.  A Python optional value is a sequence: None is <<>>, and   *)
(* a present value x is <<x>>.  A path is a non-empty sequence of          *)
(* components.  A header is a triple <<name, scheme, value>>, a query or    *)
(* form field a pair <<name, wire value>>.  A call of a public method is    *)
(* one step; the requests it sent and its outcome are kept in `call`.      *)
(***************************************************************************)
EXTENDS Integers, Sequences, FiniteSets, TLC

VARIABLES
    phase,            \* "none": no client object; "ready": CPDFClient constructed
    access_token,     \* CPDFHttpClient._access_token
    expire_time,      \* CPDFHttpClient._expire_time (ms)
    public_key,       \* CPDFHttpClient._public_key
    secret_key,       \* CPDFHttpClient._secret_key
    connect_timeout,  \* CPDFHttpClient._connect_timeout
    now,              \* int(round(time.time() * 1000))
    call,             \* the last call of a public method: requests sent, outcome
    serverMode,       \* "finished": the server answers 200 / TaskFinish / a descriptor
    flowPc,           \* position of the lifecycle caller (the sample script)
    flowArgs,         \* "sample": upload_file(file, task_id, password, parameter)
    flowTaskId,       \* task_id local of the caller
    flowFileKey,      \* file_key local of the caller
    flowFileInfo,     \* file_info local of the caller
    flowTaskInfo,     \* task_info.task_status local of the caller
    flowCalls,        \* the client methods the caller has called, in order
    thr,              \* the callers that refresh the token of one shared client
    pairs             \* the (token, expiry) pairs set_access_token was asked to store

vars == <<phase, access_token, expire_time, public_key, secret_key,
          connect_timeout, now, call, serverMode,
          flowPc, flowArgs, flowTaskId, flowFileKey, flowFileInfo, flowTaskInfo,
          flowCalls, thr, pairs>>

clientVars == <<access_token, expire_time, public_key, secret_key, connect_timeout>>
flowVars == <<flowPc, flowArgs, flowTaskId, flowFileKey, flowFileInfo, flowTaskInfo,
              flowCalls>>
concVars == <<thr, pairs>>

----------------------------------------------------------------------------
(* Bounds *)

MaxTicks == 2
MaxLifetime == 1

(* Program constants *)

MsPerSec == 1000
StatusOK == 200
NoTimeoutSentinel == -1
InitialExpire == -1

None == <<>>
Some(x) == <<x>>
IsNone(o) == o = <<>>
Val(o) == o[1]

(* Values of the modules this client imports *)

ENGLISH == 1
CHINESE == 2
Languages == {ENGLISH, CHINESE}
TASK_FINISH == "TaskFinish"
EnumTypes == {"CPDFConversionEnum", "CPDFDocumentAIEnum", "CPDFDocumentEditorEnum"}
COMPRESS == [type |-> "CPDFDocumentEditorEnum", value |-> "pdf/compress"]
PDF_TO_PNG == [type |-> "CPDFConversionEnum", value |-> "pdf/png"]
DEWARP == [type |-> "CPDFDocumentAIEnum", value |-> "documentAI/dewarp"]

(* str(language) *)
ToStr(n) == CASE n = 0 -> "0" [] n = 1 -> "1" [] n = 2 -> "2" [] n = 3 -> "3"
              [] n = 4 -> "4" [] n = 5 -> "5" [] n = 6 -> "6" [] n = 7 -> "7"
              [] n = 8 -> "8" [] n = 9 -> "9"

(* CPDFFileParameter.to_cpdf_json_str() of the compression parameter *)
CompressParameter == [quality |-> "50"]
ToCpdfJsonStr(p) == IF p.quality = "50" THEN "{\"quality\": \"50\"}" ELSE "{}"

----------------------------------------------------------------------------
(* Inputs *)

Credentials == {[public_key |-> "pk", secret_key |-> "sk"]}
Timeouts == {NoTimeoutSentinel, 5}
AccessTokens == {"tokA", "tokB"}
Lifetimes == 0 .. MaxLifetime
ErrorStatuses == {401}
ErrorEnvelopes == {[code |-> "4001001", msg |-> "bad token"],
                   [code |-> "5000", msg |-> "busy"]}
TaskStatuses == {TASK_FINISH, "TaskProcessing"}
DownloadUrls == {"", "https://download/result.pdf"}

SamplePath == <<"sample", "test.pdf">>
ImagePath == <<"sample", "logo.png">>
TaskObjects == {[type |-> "str", value |-> "pdf/compress"],
                COMPRESS, PDF_TO_PNG, DEWARP,
                [type |-> "int", value |-> "42"],
                [type |-> "NoneType", value |-> "None"]}

Threads == {"t1", "t2"}
IdleThread == [pc |-> "idle", token |-> "", lifetime |-> 0, expire |-> 0]

NoArgs == [task_object |-> None, language |-> None, file |-> None,
           task_id |-> None, password |-> None, file_parameter |-> None,
           image |-> None, image_file_name |-> None, file_key |-> None,
           connection_timeout |-> None]

----------------------------------------------------------------------------
(* The server's answers: JSON envelopes {code, msg, data} *)

Data(token, lifetime, value) ==
    [accessToken |-> token, expiresIn |-> lifetime, value |-> value]

DataOf(endpoint) ==
    CASE endpoint = "API_V1_OAUTH_TOKEN" ->
           {Data(t, l, "") : t \in AccessTokens, l \in Lifetimes}
      [] endpoint = "API_V1_TASK_INFO" -> {Data("", 0, s) : s \in TaskStatuses}
      [] endpoint = "API_V1_FILE_INFO" -> {Data("", 0, u) : u \in DownloadUrls}
      [] endpoint = "API_V1_CREATE_TASK" -> {Data("", 0, "task1")}
      [] endpoint = "API_V1_UPLOAD_FILE" -> {Data("", 0, "key1")}
      [] OTHER -> {Data("", 0, "data")}

AllResponses(endpoint) ==
    {[status |-> StatusOK, code |-> "200", msg |-> "success", data |-> d] :
        d \in DataOf(endpoint)}
    \cup
    {[status |-> st, code |-> e.code, msg |-> e.msg, data |-> Data("", 0, "")] :
        st \in ErrorStatuses, e \in ErrorEnvelopes}

(* The answers of a server that always succeeds and reports finished work *)
IsFinishedAnswer(endpoint, resp) ==
    /\ resp.status = StatusOK
    /\ endpoint = "API_V1_TASK_INFO" => resp.data.value = TASK_FINISH
    /\ endpoint = "API_V1_FILE_INFO" => resp.data.value # ""

Responses(endpoint) ==
    IF serverMode = "finished"
    THEN {r \in AllResponses(endpoint) : IsFinishedAnswer(endpoint, r)}
    ELSE AllResponses(endpoint)

----------------------------------------------------------------------------
(* Outcomes of a call *)

Return(value) ==
    [kind |-> "return", code |-> "", message |-> "", cause |-> "", value |-> value]

(* raise CPDFException(code=..., message=...) *)
RaiseCodeMessage(code, message) ==
    [kind |-> "CPDFException", code |-> code, message |-> message,
     cause |-> "", value |-> ""]

(* raise CPDFException(cause=...) *)
RaiseCause(cause) ==
    [kind |-> "CPDFException", code |-> "", message |-> "", cause |-> cause,
     value |-> ""]

(* open(path, "rb") of a path that does not exist *)
RaiseFileNotFoundError ==
    [kind |-> "FileNotFoundError", code |-> "", message |-> "",
     cause |-> "No such file or directory", value |-> ""]

(* requests.post failing to reach the server *)
RaiseConnectionError ==
    [kind |-> "ConnectionError", code |-> "", message |-> "",
     cause |-> "connection failed", value |-> ""]

(* os.path.split(None): TypeError *)
RaiseTypeError ==
    [kind |-> "TypeError", code |-> "", message |-> "",
     cause |-> "expected str, bytes or os.PathLike object, not NoneType",
     value |-> ""]

(* ApiResult with the envelope's two fields passed in the wrong order *)
ApiResultSwapped(resp) ==
    IF resp.status = StatusOK
    THEN Return(resp.data.value)
    ELSE RaiseCodeMessage(resp.msg, resp.code)

(* if response.status_code == 200: return Result(json['data'])
   else: raise CPDFException(code=json['code'], message=json['msg']) *)
ApiResult(resp) ==
    IF resp.status = StatusOK
    THEN Return(resp.data.value)
    ELSE RaiseCodeMessage(resp.code, resp.msg)

----------------------------------------------------------------------------
(* Requests *)

(* requests.get / requests.post: no call of the client passes timeout= *)
TimeoutArg == None

Request(method, url, headers, params) ==
    [method |-> method, url |-> url, headers |-> headers, params |-> params,
     timeout |-> TimeoutArg]

(* CPDFHttpClient._basic_headers *)
BasicHeaders == {<<"Authorization", "Bearer", access_token>>}

NoHeaders == {}

(* CPDFHttpClient.get_compdfkit_auth: the request *)
AuthRequest(pk, sk) ==
    Request("POST", <<"API_V1_OAUTH_TOKEN">>,
            {<<"Content-Type", "", "application/json">>},
            {<<"publicKey", pk>>, <<"secretKey", sk>>})

(* AuthResult raising a fixed error instead of the server's envelope *)
AuthResultGeneric(resp) ==
    IF resp.status = StatusOK
    THEN Return(resp.data.accessToken)
    ELSE RaiseCause("authentication failed")

(* CPDFHttpClient.get_compdfkit_auth: the outcome *)
AuthResult(resp) ==
    IF resp.status = StatusOK
    THEN Return(resp.data.accessToken)
    ELSE RaiseCodeMessage(resp.code, resp.msg)

----------------------------------------------------------------------------
(* Token cache *)

(* NeedsRefresh with the expiry comparison inverted *)
NeedsRefreshInverted ==
    expire_time < 0 \/ expire_time > now \/ access_token = ""

(* the condition of get_access_token *)
NeedsRefresh ==
    expire_time < 0 \/ expire_time < now \/ access_token = ""

(* ExpireOf adding seconds to milliseconds *)
ExpireOfUnscaled(expires_in) == expires_in + now

(* set_access_token: the expiry it stores *)
ExpireOf(expires_in) == expires_in * MsPerSec + now

MkCall(op, args, reqs, resps, result) ==
    [op |-> op, args |-> args, reqs |-> reqs, resps |-> resps, result |-> result,
     preToken |-> access_token, preExpire |-> expire_time, at |-> now,
     opened |-> {}, stillOpen |-> {}]

(* a call with the file handles it opened and those still open when it is over *)
WithHandles(c, opened, stillOpen) ==
    [c EXCEPT !.opened = opened, !.stillOpen = stillOpen]

(* RefreshEffect resetting the cache when the authentication is rejected *)
RefreshEffectClearing(resp) ==
    IF resp.status = StatusOK
    THEN /\ access_token' = resp.data.accessToken
         /\ expire_time' = ExpireOf(resp.data.expiresIn)
         /\ pairs' = {<<resp.data.accessToken, ExpireOf(resp.data.expiresIn)>>}
    ELSE /\ access_token' = ""
         /\ expire_time' = InitialExpire
         /\ pairs' = {<<"", InitialExpire>>}

(* refresh_access_token: get_compdfkit_auth, then set_access_token on success *)
RefreshEffect(resp) ==
    IF resp.status = StatusOK
    THEN /\ access_token' = resp.data.accessToken
         /\ expire_time' = ExpireOf(resp.data.expiresIn)
         /\ pairs' = {<<resp.data.accessToken, ExpireOf(resp.data.expiresIn)>>}
    ELSE UNCHANGED <<access_token, expire_time, pairs>>

----------------------------------------------------------------------------
(* Operations of CPDFHttpClient, as the call each one makes *)

Lang(language) == {<<"language", ToStr(language)>>}

(* CPDFHttpClient.get_tools: requests.get(url), no headers *)
GetToolsCall(resp) ==
    MkCall("get_tools", NoArgs,
           <<Request("GET", <<"API_V1_TOOL_SUPPORT">>, NoHeaders, {})>>,
           <<resp>>, ApiResult(resp))

(* CPDFClient.get_file_info passes language=language, None when not given;
   requests leaves a None parameter out of the query *)
GetFileInfoCall(file_key, language, resp) ==
    MkCall("get_file_info",
           [NoArgs EXCEPT !.file_key = Some(file_key), !.language = language],
           <<Request("GET", <<"API_V1_FILE_INFO">>, BasicHeaders,
                     {<<"fileKey", file_key>>}
                     \cup (IF IsNone(language) THEN {} ELSE Lang(Val(language))))>>,
           <<resp>>, ApiResult(resp))

GetAssetInfoCall(resp) ==
    MkCall("get_asset_info", NoArgs,
           <<Request("GET", <<"API_V1_ASSET_INFO">>, BasicHeaders, {})>>,
           <<resp>>, ApiResult(resp))

GetTaskListCall(page, size, resp) ==
    MkCall("get_task_list", NoArgs,
           <<Request("GET", <<"API_V1_TASK_LIST">>, BasicHeaders,
                     {<<"page", page>>, <<"pageSize", size>>})>>,
           <<resp>>, ApiResult(resp))

(* CPDFHttpClient.create_task *)
HttpCreateTask(args, execute_type_url, language, resp) ==
    MkCall("create_task", args,
           <<Request("GET", <<"API_V1_CREATE_TASK", execute_type_url>>,
                     BasicHeaders, Lang(language))>>,
           <<resp>>, ApiResult(resp))

(* CreateTaskCall without the final else: anything that is not a string is
   treated as a catalog member *)
CreateTaskCallUnchecked(task_object, language, resp) ==
    LET args == [NoArgs EXCEPT !.task_object = Some(task_object),
                               !.language = language]
        lang == IF IsNone(language) THEN ENGLISH ELSE Val(language)
    IN  IF task_object.type = "str"
        THEN HttpCreateTask(args, task_object.value, lang, resp)
        ELSE HttpCreateTask(args, task_object.value, ENGLISH, resp)

(* CPDFClient.create_task: a catalog member re-enters create_task with its
   value alone, so the language falls back to the default *)
CreateTaskCall(task_object, language, resp) ==
    LET args == [NoArgs EXCEPT !.task_object = Some(task_object),
                               !.language = language]
        lang == IF IsNone(language) THEN ENGLISH ELSE Val(language)
    IN  IF task_object.type = "str"
        THEN HttpCreateTask(args, task_object.value, lang, resp)
        ELSE IF task_object.type \in EnumTypes
        THEN HttpCreateTask(args, task_object.value, ENGLISH, resp)
        ELSE MkCall("create_task", args, <<>>, <<>>,
                    RaiseCause("The task object is not a valid type."))

ExecuteTaskCall(task_id, resp) ==
    MkCall("execute_task", [NoArgs EXCEPT !.task_id = Some(task_id)],
           <<Request("GET", <<"API_V1_EXECUTE_TASK">>, BasicHeaders,
                     {<<"taskId", task_id>>} \cup Lang(ENGLISH))>>,
           <<resp>>, ApiResult(resp))

(* GetTaskInfoCall treating an unfinished task as an error *)
GetTaskInfoCallStrict(task_id, resp) ==
    MkCall("get_task_info", [NoArgs EXCEPT !.task_id = Some(task_id)],
           <<Request("GET", <<"API_V1_TASK_INFO">>, BasicHeaders,
                     {<<"taskId", task_id>>} \cup Lang(ENGLISH))>>,
           <<resp>>,
           IF resp.status = StatusOK /\ resp.data.value # TASK_FINISH
           THEN RaiseCause("Task incomplete processing")
           ELSE ApiResult(resp))

(* CPDFHttpClient.get_task_info *)
GetTaskInfoCall(task_id, resp) ==
    MkCall("get_task_info", [NoArgs EXCEPT !.task_id = Some(task_id)],
           <<Request("GET", <<"API_V1_TASK_INFO">>, BasicHeaders,
                     {<<"taskId", task_id>>} \cup Lang(ENGLISH))>>,
           <<resp>>, ApiResult(resp))

(* os.path.split *)
PathSplit(path) == <<SubSeq(path, 1, Len(path) - 1), path[Len(path)]>>

(* truth value of an optional string *)
Truthy(o) == ~IsNone(o) /\ Val(o) # ""

(* The environment of an upload: the local files, the network, and whether the
   runtime has already finalized the file objects nothing refers to when the
   call returns (the client itself closes nothing) *)
Envs ==
    [fileExists : BOOLEAN, imageExists : BOOLEAN, transportOk : BOOLEAN,
     finalized : BOOLEAN]
HealthyEnvs ==
    {e \in Envs : e.fileExists /\ e.imageExists /\ e.transportOk}

(* the handles left open when get_upload_file_result is over: it never calls
   close; on return the file objects are unreferenced and the runtime may have
   finalized them, on raise the traceback's frame still refers to them *)
LeftOpen(opened, result, env) ==
    IF result.kind = "return" /\ env.finalized THEN {} ELSE opened

(* CPDFHttpClient.get_upload_file_result *)
HttpUpload(args, task_id, password, file_parameter, file_name, image, image_file_name, env, resp) ==
    LET sendsImage == ~IsNone(image) /\ Truthy(image_file_name)
        opened == IF sendsImage THEN {"file", "image"} ELSE {"file"}
        request ==
            Request("POST", <<"API_V1_UPLOAD_FILE">>,
                    BasicHeaders \cup {<<"Content-Type", "", "multipart/form-data">>},
                    {<<"taskId", Val(task_id)>>, <<"file", file_name>>}
                    \cup Lang(ENGLISH)
                    \cup (IF Truthy(password)
                          THEN {<<"password", Val(password)>>} ELSE {})
                    \cup (IF ~IsNone(file_parameter)
                          THEN {<<"parameter", ToCpdfJsonStr(Val(file_parameter))>>}
                          ELSE {})
                    \cup (IF sendsImage
                          THEN {<<"image", Val(image_file_name)>>} ELSE {}))
    IN  IF IsNone(task_id)
        THEN MkCall("upload_file", args, <<>>, <<>>,
                    RaiseCause("The task id is required."))
        ELSE IF ~env.fileExists
        THEN MkCall("upload_file", args, <<>>, <<>>, RaiseFileNotFoundError)
        ELSE IF sendsImage /\ ~env.imageExists
        THEN WithHandles(MkCall("upload_file", args, <<>>, <<>>,
                                RaiseFileNotFoundError),
                         {"file"}, LeftOpen({"file"}, RaiseFileNotFoundError, env))
        ELSE IF ~env.transportOk
        THEN WithHandles(MkCall("upload_file", args, <<request>>, <<>>,
                                RaiseConnectionError),
                         opened, LeftOpen(opened, RaiseConnectionError, env))
        ELSE WithHandles(MkCall("upload_file", args, <<request>>, <<resp>>,
                                ApiResult(resp)),
                         opened, LeftOpen(opened, ApiResult(resp), env))

(* CPDFClient.upload_file / _get_upload_file_result *)
UploadFileCall(file, task_id, password, file_parameter, image, image_file_name, env, resp) ==
    LET args == [NoArgs EXCEPT !.file = Some(file), !.task_id = task_id,
                               !.password = password,
                               !.file_parameter = file_parameter,
                               !.image = image,
                               !.image_file_name = image_file_name]
        file_name == PathSplit(file)[2]
    IN  IF IsNone(image_file_name) /\ IsNone(image)
        THEN MkCall("upload_file", args, <<>>, <<>>, RaiseTypeError)
        ELSE HttpUpload(args, task_id, password, file_parameter, file_name, image,
                        IF IsNone(image_file_name)
                        THEN Some(PathSplit(Val(image))[2])
                        ELSE image_file_name,
                        env, resp)

----------------------------------------------------------------------------
(* State machine *)

Init ==
    /\ phase = "none"
    /\ access_token = ""
    /\ expire_time = InitialExpire
    /\ public_key = ""
    /\ secret_key = ""
    /\ connect_timeout = NoTimeoutSentinel
    /\ now = 0
    /\ call = MkCall("none", NoArgs, <<>>, <<>>, Return(""))
    /\ serverMode = "any"
    /\ flowPc = "idle"
    /\ flowArgs = "sample"
    /\ flowTaskId = ""
    /\ flowFileKey = ""
    /\ flowFileInfo = ""
    /\ flowTaskInfo = ""
    /\ flowCalls = <<>>
    /\ thr = [t \in Threads |-> IdleThread]
    /\ pairs = {<<"", InitialExpire>>}

(* time passes between calls *)
Tick ==
    /\ now + MsPerSec <= MaxTicks * MsPerSec
    /\ now' = now + MsPerSec
    /\ UNCHANGED <<phase, clientVars, call, serverMode, flowVars, concVars>>

(* Construct storing the keys only and leaving authentication to the first use *)
ConstructLazy ==
    /\ phase = "none"
    /\ \E cred \in Credentials, timeout \in Timeouts :
          /\ call' = MkCall("__init__",
                            [NoArgs EXCEPT !.connection_timeout = Some(timeout)],
                            <<>>, <<>>, Return(""))
          /\ phase' = "ready"
          /\ public_key' = cred.public_key
          /\ secret_key' = cred.secret_key
          /\ connect_timeout' = timeout
    /\ UNCHANGED <<access_token, expire_time, pairs, now, serverMode, flowVars, thr>>

(* CPDFClient(public_key, secret_key, connection_timeout): CPDFHttpClient.__init__
   sets the fields and calls refresh_access_token; when that raises, no client
   object is obtained *)
Construct ==
    /\ phase = "none"
    /\ \E cred \in Credentials, timeout \in Timeouts,
          resp \in Responses("API_V1_OAUTH_TOKEN") :
          /\ call' = MkCall("__init__",
                            [NoArgs EXCEPT !.connection_timeout = Some(timeout)],
                            <<AuthRequest(cred.public_key, cred.secret_key)>>,
                            <<resp>>,
                            IF resp.status = StatusOK
                            THEN Return("") ELSE AuthResult(resp))
          /\ RefreshEffect(resp)
          /\ IF resp.status = StatusOK
             THEN /\ phase' = "ready"
                  /\ public_key' = cred.public_key
                  /\ secret_key' = cred.secret_key
                  /\ connect_timeout' = timeout
             ELSE UNCHANGED <<phase, public_key, secret_key, connect_timeout>>
    /\ UNCHANGED <<now, serverMode, flowVars, thr>>

(* CPDFHttpClient.get_access_token *)
GetAccessToken ==
    /\ phase = "ready"
    /\ IF NeedsRefresh
       THEN \E resp \in Responses("API_V1_OAUTH_TOKEN") :
               /\ call' = MkCall("get_access_token", NoArgs,
                                 <<AuthRequest(public_key, secret_key)>>,
                                 <<resp>>, AuthResult(resp))
               /\ RefreshEffect(resp)
       ELSE /\ call' = MkCall("get_access_token", NoArgs, <<>>, <<>>,
                               Return(access_token))
            /\ UNCHANGED <<access_token, expire_time, pairs>>
    /\ UNCHANGED <<phase, public_key, secret_key, connect_timeout, now, serverMode,
                   flowVars, thr>>

(* CPDFHttpClient.refresh_access_token, called by the user *)
RefreshAccessToken ==
    /\ phase = "ready"
    /\ \E resp \in Responses("API_V1_OAUTH_TOKEN") :
          /\ call' = MkCall("refresh_access_token", NoArgs,
                            <<AuthRequest(public_key, secret_key)>>,
                            <<resp>>,
                            IF resp.status = StatusOK
                            THEN Return("") ELSE AuthResult(resp))
          /\ RefreshEffect(resp)
    /\ UNCHANGED <<phase, public_key, secret_key, connect_timeout, now, serverMode,
                   flowVars, thr>>

(* ApiCall forgetting the token when the server rejects the request *)
ApiCallDropsToken(c) ==
    /\ phase = "ready"
    /\ call' = c
    /\ access_token' = IF c.result.kind = "return" THEN access_token ELSE ""
    /\ UNCHANGED <<phase, expire_time, public_key, secret_key, connect_timeout,
                   now, serverMode, concVars>>

(* an operation that reads the client and changes none of its fields *)
ApiCall(c) ==
    /\ phase = "ready"
    /\ call' = c
    /\ UNCHANGED <<phase, clientVars, now, serverMode, concVars>>

GetTools ==
    /\ \E resp \in Responses("API_V1_TOOL_SUPPORT") :
          ApiCall(GetToolsCall(resp))
    /\ UNCHANGED flowVars

GetFileInfo ==
    /\ \E language \in {None} \cup {Some(l) : l \in Languages},
          resp \in Responses("API_V1_FILE_INFO") :
          ApiCall(GetFileInfoCall("key1", language, resp))
    /\ UNCHANGED flowVars

GetAssetInfo ==
    /\ \E resp \in Responses("API_V1_ASSET_INFO") :
          ApiCall(GetAssetInfoCall(resp))
    /\ UNCHANGED flowVars

GetTaskList ==
    /\ \E resp \in Responses("API_V1_TASK_LIST") :
          ApiCall(GetTaskListCall("1", "5", resp))
    /\ UNCHANGED flowVars

(* a call that raises before it sends anything gets no response *)
Answers(endpoint, sends) ==
    IF sends THEN Responses(endpoint)
    ELSE {CHOOSE r \in AllResponses(endpoint) : TRUE}

CreateTask ==
    /\ \E task_object \in TaskObjects,
          language \in {None} \cup {Some(l) : l \in Languages} :
          \E resp \in Answers("API_V1_CREATE_TASK",
                              task_object.type \in {"str"} \cup EnumTypes) :
             ApiCall(CreateTaskCall(task_object, language, resp))
    /\ UNCHANGED flowVars

(* the runtime's choice matters only to a call that opened files and returned *)
Finalizations(envs, returns) ==
    IF returns THEN envs ELSE {e \in envs : ~e.finalized}

(* upload_file with the local files in place and the server reachable *)
UploadFile ==
    /\ \E task_id \in {None, Some("task1")},
          password \in {None, Some(""), Some("pw")},
          file_parameter \in {None, Some(CompressParameter)},
          image \in {None, Some(ImagePath)},
          image_file_name \in {None, Some("stamp.png")} :
          LET sends == /\ ~IsNone(task_id)
                       /\ ~(IsNone(image) /\ IsNone(image_file_name))
          IN  \E resp \in Answers("API_V1_UPLOAD_FILE", sends) :
                 \E env \in Finalizations(HealthyEnvs,
                                          sends /\ resp.status = StatusOK) :
                    ApiCall(UploadFileCall(SamplePath, task_id, password,
                                           file_parameter, image, image_file_name,
                                           env, resp))
    /\ UNCHANGED flowVars

(* upload_file in any environment: missing files, unreachable server *)
UploadFileEnv ==
    /\ \E task_id \in {None, Some("task1")},
          password \in {None, Some(""), Some("pw")},
          file_parameter \in {None, Some(CompressParameter)},
          image \in {None, Some(ImagePath)},
          image_file_name \in {None, Some("stamp.png")},
          env \in Envs,
          resp \in Responses("API_V1_UPLOAD_FILE") :
          ApiCall(UploadFileCall(SamplePath, task_id, password, file_parameter,
                                 image, image_file_name, env, resp))
    /\ UNCHANGED flowVars

ExecuteTask ==
    /\ \E resp \in Responses("API_V1_EXECUTE_TASK") :
          ApiCall(ExecuteTaskCall("task1", resp))
    /\ UNCHANGED flowVars

GetTaskInfo ==
    /\ \E resp \in Responses("API_V1_TASK_INFO") :
          ApiCall(GetTaskInfoCall("task1", resp))
    /\ UNCHANGED flowVars

----------------------------------------------------------------------------
(* The lifecycle caller: the body of a sample script (page_compression).
   flowArgs = "sample" is the call the samples make,
   upload_file(file, task_id, file_password, file_parameter); "with_image" is a
   caller that also passes an image path. An exception ends the script. *)

Returned == call'.result.kind = "return"

FlowCreateTask ==
    /\ flowPc = "create"
    /\ \E resp \in Responses("API_V1_CREATE_TASK") :
          ApiCall(CreateTaskCall(COMPRESS, None, resp))
    /\ flowCalls' = Append(flowCalls, call'.op)
    /\ flowPc' = IF Returned THEN "upload" ELSE "raised"
    /\ flowTaskId' = IF Returned THEN call'.result.value ELSE flowTaskId
    /\ UNCHANGED <<flowArgs, flowFileKey, flowFileInfo, flowTaskInfo>>

FlowUploadFile ==
    /\ flowPc = "upload"
    /\ \E resp \in Responses("API_V1_UPLOAD_FILE") :
          \E env \in Finalizations(HealthyEnvs, resp.status = StatusOK) :
             ApiCall(UploadFileCall(SamplePath, Some(flowTaskId), Some(""),
                                    Some(CompressParameter),
                                    IF flowArgs = "sample" THEN None
                                    ELSE Some(ImagePath),
                                    None, env, resp))
    /\ flowCalls' = Append(flowCalls, call'.op)
    /\ flowPc' = IF Returned THEN "execute" ELSE "raised"
    /\ flowFileKey' = IF Returned THEN call'.result.value ELSE flowFileKey
    /\ UNCHANGED <<flowArgs, flowTaskId, flowFileInfo, flowTaskInfo>>

FlowExecuteTask ==
    /\ flowPc = "execute"
    /\ \E resp \in Responses("API_V1_EXECUTE_TASK") :
          ApiCall(ExecuteTaskCall(flowTaskId, resp))
    /\ flowCalls' = Append(flowCalls, call'.op)
    /\ flowPc' = IF Returned THEN "task_info" ELSE "raised"
    /\ UNCHANGED <<flowArgs, flowTaskId, flowFileKey, flowFileInfo, flowTaskInfo>>

(* FlowGetTaskInfo without the test of the status: the file info is fetched
   whatever get_task_info reported *)
FlowGetTaskInfoAlwaysFetch ==
    /\ flowPc = "task_info"
    /\ \E resp \in Responses("API_V1_TASK_INFO") :
          ApiCall(GetTaskInfoCall(flowTaskId, resp))
    /\ flowCalls' = Append(flowCalls, call'.op)
    /\ flowPc' = IF ~Returned THEN "raised" ELSE "file_info"
    /\ flowTaskInfo' = IF Returned THEN call'.result.value ELSE flowTaskInfo
    /\ UNCHANGED <<flowArgs, flowTaskId, flowFileKey, flowFileInfo>>

FlowGetTaskInfo ==
    /\ flowPc = "task_info"
    /\ \E resp \in Responses("API_V1_TASK_INFO") :
          ApiCall(GetTaskInfoCall(flowTaskId, resp))
    /\ flowCalls' = Append(flowCalls, call'.op)
    /\ flowPc' = IF ~Returned THEN "raised"
                 ELSE IF call'.result.value = TASK_FINISH THEN "file_info"
                 ELSE "incomplete"
    /\ flowTaskInfo' = IF Returned THEN call'.result.value ELSE flowTaskInfo
    /\ UNCHANGED <<flowArgs, flowTaskId, flowFileKey, flowFileInfo>>

FlowGetFileInfo ==
    /\ flowPc = "file_info"
    /\ \E resp \in Responses("API_V1_FILE_INFO") :
          ApiCall(GetFileInfoCall(flowFileKey, None, resp))
    /\ flowCalls' = Append(flowCalls, call'.op)
    /\ flowPc' = IF Returned THEN "done" ELSE "raised"
    /\ flowFileInfo' = IF Returned THEN call'.result.value ELSE flowFileInfo
    /\ UNCHANGED <<flowArgs, flowTaskId, flowFileKey, flowTaskInfo>>

Next ==
    \/ Tick
    \/ Construct
    \/ GetAccessToken
    \/ RefreshAccessToken
    \/ GetTools
    \/ GetFileInfo
    \/ GetAssetInfo
    \/ GetTaskList
    \/ CreateTask
    \/ UploadFile
    \/ ExecuteTask
    \/ GetTaskInfo

Spec == Init /\ [][Next]_vars

(* A sample script run against a server of either kind *)
FlowInit ==
    /\ phase = "none"
    /\ access_token = ""
    /\ expire_time = InitialExpire
    /\ public_key = ""
    /\ secret_key = ""
    /\ connect_timeout = NoTimeoutSentinel
    /\ now = 0
    /\ call = MkCall("none", NoArgs, <<>>, <<>>, Return(""))
    /\ serverMode \in {"finished", "any"}
    /\ flowPc = "create"
    /\ flowArgs \in {"sample", "with_image"}
    /\ flowTaskId = ""
    /\ flowFileKey = ""
    /\ flowFileInfo = ""
    /\ flowTaskInfo = ""
    /\ flowCalls = <<>>
    /\ thr = [t \in Threads |-> IdleThread]
    /\ pairs = {<<"", InitialExpire>>}

FlowNext ==
    \/ Tick
    \/ Construct
    \/ FlowCreateTask
    \/ FlowUploadFile
    \/ FlowExecuteTask
    \/ FlowGetTaskInfo
    \/ FlowGetFileInfo

SpecFlow == FlowInit /\ [][FlowNext]_vars

(* Callers sharing one client, each inside refresh_access_token: the
   authentication exchange, then the two assignments of set_access_token, one
   step each, interleaved freely; the clock is read by the second assignment *)
ThreadFrame == UNCHANGED <<phase, public_key, secret_key, connect_timeout, now,
                           call, serverMode, flowVars>>

ThreadAuth(t) ==
    /\ phase = "ready"
    /\ thr[t].pc = "idle"
    /\ \E resp \in Responses("API_V1_OAUTH_TOKEN") :
          thr' = [thr EXCEPT ![t] =
                    IF resp.status = StatusOK
                    THEN [IdleThread EXCEPT !.pc = "set_token",
                                            !.token = resp.data.accessToken,
                                            !.lifetime = resp.data.expiresIn]
                    ELSE [IdleThread EXCEPT !.pc = "raised"]]
    /\ UNCHANGED <<access_token, expire_time, pairs>>
    /\ ThreadFrame

(* self._access_token = access_token *)
ThreadSetToken(t) ==
    /\ thr[t].pc = "set_token"
    /\ access_token' = thr[t].token
    /\ thr' = [thr EXCEPT ![t].pc = "set_expire"]
    /\ UNCHANGED <<expire_time, pairs>>
    /\ ThreadFrame

(* self._expire_time = expires_in * 1000 + int(round(time.time() * 1000)) *)
ThreadSetExpire(t) ==
    /\ thr[t].pc = "set_expire"
    /\ expire_time' = ExpireOf(thr[t].lifetime)
    /\ thr' = [thr EXCEPT ![t].pc = "done",
                          ![t].expire = ExpireOf(thr[t].lifetime)]
    /\ pairs' = pairs \cup {<<thr[t].token, ExpireOf(thr[t].lifetime)>>}
    /\ UNCHANGED access_token
    /\ ThreadFrame

ConcNext ==
    \/ Tick
    \/ Construct
    \/ \E t \in Threads : ThreadAuth(t)
    \/ \E t \in Threads : ThreadSetToken(t)
    \/ \E t \in Threads : ThreadSetExpire(t)

SpecConc == Init /\ [][ConcNext]_vars

(* upload_file alone, in every environment *)
UploadNext ==
    \/ Construct
    \/ UploadFileEnv

SpecUpload == Init /\ [][UploadNext]_vars

----------------------------------------------------------------------------
(* Properties *)

IsAuthRequest(req) == req.url = <<"API_V1_OAUTH_TOKEN">>
BearerTokens(req) == {h[3] : h \in {g \in req.headers : g[1] = "Authorization"}}
AuthRequests(c) == {i \in 1 .. Len(c.reqs) : IsAuthRequest(c.reqs[i])}
ApiRequests(c) == {i \in 1 .. Len(c.reqs) : ~IsAuthRequest(c.reqs[i])}

AuthenticatedOps == {"create_task", "upload_file", "execute_task", "get_task_info",
                     "get_file_info", "get_asset_info", "get_task_list"}
ApiOps == AuthenticatedOps \cup {"get_tools"}

(* C1: an authenticated operation called after the cached token's expiry has
   elapsed performs exactly one authentication exchange before its API request,
   and the API request carries the token that exchange obtained. *)
C1_RefreshBeforeExpiredUse ==
    (call.op \in AuthenticatedOps /\ call.reqs # <<>> /\ call.preExpire < call.at)
    => /\ Cardinality(AuthRequests(call)) = 1
       /\ IsAuthRequest(call.reqs[1])
       /\ \A i \in ApiRequests(call) :
             /\ i = 2
             /\ call.resps[1].status = StatusOK
             /\ BearerTokens(call.reqs[i]) = {call.resps[1].data.accessToken}

(* C2: no API request carries an empty token or a token whose expiry is not
   strictly later than the time the request is sent. *)
C2_NoStaleTokenSent ==
    \A i \in ApiRequests(call) :
        \A t \in BearerTokens(call.reqs[i]) :
            /\ t # ""
            /\ IF AuthRequests(call) = {} THEN call.preExpire > call.at
               ELSE expire_time > call.at

(* C3: every request to the API server, get_tools included, carries the
   Authorization header with the cached token; only the authentication request
   is sent without it. *)
C3_EveryApiRequestAuthorized ==
    \A i \in 1 .. Len(call.reqs) :
        IF IsAuthRequest(call.reqs[i])
        THEN BearerTokens(call.reqs[i]) = {}
        ELSE BearerTokens(call.reqs[i]) \in {{call.preToken}, {access_token}}

(* C4: while a fetched token has not reached its expiry, no operation and no
   get_access_token call sends an authentication request. *)
C4_NoRefreshBeforeExpiry ==
    (/\ call.op \in ApiOps \cup {"get_access_token"}
     /\ call.preToken # ""
     /\ call.at < call.preExpire)
    => AuthRequests(call) = {}

C4_Witness ==
    /\ call.op = "get_access_token"
    /\ call.preToken # ""
    /\ call.at < call.preExpire
    /\ call.result = Return(call.preToken)

(* C5 as claimed: the token get_access_token returns has expiry = issuance
   time + lifetime and that expiry is strictly later than the time of the
   call, for every lifetime including 0. *)
C5_ExpiryStrictlyFuture ==
    (call.op = "get_access_token" /\ call.result.kind = "return")
    => /\ call.result.value = access_token
       /\ call.reqs # <<>> =>
             expire_time = call.at + call.resps[1].data.expiresIn * MsPerSec
       /\ expire_time > call.at

(* C5, amended: the token get_access_token returns is the cached one, its
   expiry is issuance time (ms) + lifetime (s) * 1000 when the call fetched it,
   and the expiry is not earlier than the clock value the call read; it equals
   that value for a lifetime of 0 and for a call made at the expiry instant. *)
C5_ExpiryNotPast ==
    (call.op = "get_access_token" /\ call.result.kind = "return")
    => /\ call.result.value = access_token
       /\ call.reqs # <<>> =>
             expire_time = call.at + call.resps[1].data.expiresIn * MsPerSec
       /\ expire_time >= call.at

C5_Witness ==
    /\ call.op = "get_access_token"
    /\ call.result.kind = "return"
    /\ call.reqs # <<>>
    /\ call.resps[1].data.expiresIn = 0
    /\ call.at > 0
    /\ expire_time = call.at

(* C6: on a server that always answers 200 and TaskFinish, the sample's
   sequence create_task, upload_file, execute_task, get_task_info,
   get_file_info raises nothing and ends with a non-empty download descriptor. *)
C6_SampleFlowCompletes ==
    (serverMode = "finished" /\ flowArgs = "sample")
    => /\ flowPc \notin {"raised", "incomplete"}
       /\ flowPc = "done" => flowFileInfo # ""

(* C7: create_task with a selector that is neither a string nor a catalog
   member raises the invalid-argument error, sends no request, and leaves the
   cached token and expiry as they were. *)
C7_InvalidSelectorRejected ==
    (/\ call.op = "create_task"
     /\ Val(call.args.task_object).type \notin {"str"} \cup EnumTypes)
    => /\ call.reqs = <<>>
       /\ call.result.kind = "CPDFException"
       /\ call.result.cause # ""
       /\ access_token = call.preToken
       /\ expire_time = call.preExpire

C7_Witness ==
    /\ call.op = "create_task"
    /\ Val(call.args.task_object).type = "int"
    /\ call.result = RaiseCause("The task object is not a valid type.")

(* C8: an API request answered with a status other than 200 makes the
   operation raise an error whose code and message are the response's code and
   msg, and the operation returns nothing. *)
C8_ErrorEnvelopePassedThrough ==
    \A i \in ApiRequests(call) :
        call.resps[i].status # StatusOK
        => /\ call.result.kind = "CPDFException"
           /\ call.result.code = call.resps[i].code
           /\ call.result.message = call.resps[i].msg
           /\ call.result.value = ""

C8_Witness ==
    /\ call.op = "upload_file"
    /\ call.reqs # <<>>
    /\ call.resps[1].status # StatusOK
    /\ call.result = RaiseCodeMessage("4001001", "bad token")

(* C9: a request answered with a non-success status is the last request of
   its call and the only one to its endpoint, and the call raises; a failed
   authentication raises with the server's code and message. *)
C9_NoRetry ==
    \A i \in 1 .. Len(call.reqs) :
        call.resps[i].status # StatusOK
        => /\ i = Len(call.reqs)
           /\ \A j \in 1 .. Len(call.reqs) :
                 call.reqs[j].url = call.reqs[i].url => j = i
           /\ call.result.kind = "CPDFException"
           /\ IsAuthRequest(call.reqs[i])
              => /\ call.result.code = call.resps[i].code
                 /\ call.result.message = call.resps[i].msg

C9_Witness ==
    /\ call.op = "get_access_token"
    /\ Len(call.reqs) = 1
    /\ call.resps[1].status # StatusOK
    /\ call.result = RaiseCodeMessage("5000", "busy")
    /\ access_token = call.preToken

(* C10: a client constructed with a connection timeout other than -1 sends
   every request with that timeout, and with -1 sends it with none. *)
C10_TimeoutOnEveryRequest ==
    \A i \in 1 .. Len(call.reqs) :
        LET configured == IF call.op = "__init__"
                          THEN Val(call.args.connection_timeout)
                          ELSE connect_timeout
        IN  call.reqs[i].timeout =
               IF configured = NoTimeoutSentinel THEN None ELSE Some(configured)

(* C11: once upload_file is over, on every path, no file handle it opened is
   still open. *)
C11_HandlesReleased ==
    call.op = "upload_file" => call.stillOpen = {}

(* C12: at every point of every interleaving the cached token and the cached
   expiry are a pair that one set_access_token call was asked to store. *)
C12_PairReplacedWhole ==
    <<access_token, expire_time>> \in pairs

(* C13: after two concurrent refreshes have both completed, the cached token
   and the cached expiry come from the same authentication response. *)
C13_LastWriterWins ==
    (\A t \in Threads : thr[t].pc = "done")
    => \E t \in Threads :
          access_token = thr[t].token /\ expire_time = thr[t].expire

(* C14: a get_task_info call sends exactly one task-info request and, when the
   server answers 200, returns the status it reported, finished or not. *)
C14_SingleShotPoll ==
    call.op = "get_task_info"
    => /\ Len(call.reqs) = 1
       /\ call.reqs[1].url = <<"API_V1_TASK_INFO">>
       /\ call.resps[1].status = StatusOK
          => call.result = Return(call.resps[1].data.value)

C14_Witness ==
    /\ call.op = "get_task_info"
    /\ Len(call.reqs) = 1
    /\ call.result = Return("TaskProcessing")

(* C15: whatever calls came before, upload_file with a task id sends its upload
   request and get_file_info sends its request: nothing is rejected locally. *)
C15_NoLocalRejection ==
    /\ (call.op = "upload_file" /\ ~IsNone(call.args.task_id))
       => /\ Len(call.reqs) = 1
          /\ call.reqs[1].url = <<"API_V1_UPLOAD_FILE">>
    /\ call.op = "get_file_info"
       => /\ Len(call.reqs) = 1
          /\ call.reqs[1].url = <<"API_V1_FILE_INFO">>

(* C16: create_task with a catalog member and a language sends the request
   that create_task with the member's endpoint path and that language sends. *)
C16_MemberSameAsPath ==
    (call.op = "create_task" /\ Val(call.args.task_object).type \in EnumTypes)
    => call.reqs =
          CreateTaskCall([type |-> "str", value |-> Val(call.args.task_object).value],
                         call.args.language, call.resps[1]).reqs

(* C17: upload_file with a task id, for every combination of the optional
   arguments, sends one multipart request whose fields are taskId, file and
   language, password iff a non-empty one was given, parameter iff parameters
   were given, image iff an image path was given; it raises no local error. *)
C17_UploadFields ==
    (call.op = "upload_file" /\ ~IsNone(call.args.task_id))
    => /\ Len(call.reqs) = 1
       /\ {f[1] : f \in call.reqs[1].params} =
             {"taskId", "file", "language"}
             \cup (IF Truthy(call.args.password) THEN {"password"} ELSE {})
             \cup (IF ~IsNone(call.args.file_parameter) THEN {"parameter"} ELSE {})
             \cup (IF ~IsNone(call.args.image) THEN {"image"} ELSE {})
       /\ ~IsNone(call.args.file_parameter)
          => <<"parameter", ToCpdfJsonStr(Val(call.args.file_parameter))>>
                \in call.reqs[1].params
       /\ call.result.kind \in {"return", "CPDFException"}

(* C18: upload_file with task id None raises the invalid-argument error, sends
   no request and opens no file, whatever the other arguments are. *)
C18_MissingTaskIdRejected ==
    (call.op = "upload_file" /\ IsNone(call.args.task_id))
    => /\ call.result = RaiseCause("The task id is required.")
       /\ call.reqs = <<>>
       /\ call.opened = {}

ReadOnlyOps == {"get_tools", "get_asset_info", "get_task_list"}

(* C19: get_tools, get_asset_info and get_task_list each send exactly one GET
   request, and the step that makes the call leaves the cached token, the
   expiry, the keys and the timeout unchanged, whatever the response. *)
C19_ReadOnlyQueries ==
    /\ [](call.op \in ReadOnlyOps
          => Len(call.reqs) = 1 /\ call.reqs[1].method = "GET")
    /\ [][call'.op \in ReadOnlyOps => UNCHANGED clientVars]_vars

C19_Witness ==
    /\ call.op = "get_asset_info"
    /\ call.resps[1].status # StatusOK
    /\ access_token = call.preToken
    /\ access_token # ""

SampleOrder == <<"create_task", "upload_file", "execute_task", "get_task_info",
                 "get_file_info">>

(* C20: the script's calls are a prefix of create_task, upload_file,
   execute_task, get_task_info, get_file_info; get_file_info is called only
   after the one get_task_info reported TaskFinish, and a script that saw
   another status has ended after those four calls. *)
C20_SampleOrder ==
    /\ Len(flowCalls) <= Len(SampleOrder)
    /\ flowCalls = SubSeq(SampleOrder, 1, Len(flowCalls))
    /\ Len(flowCalls) = Len(SampleOrder) => flowTaskInfo = TASK_FINISH
    /\ (flowTaskInfo # "" /\ flowTaskInfo # TASK_FINISH)
       => /\ flowPc = "incomplete"
          /\ flowCalls = SubSeq(SampleOrder, 1, Len(SampleOrder) - 1)
          /\ ~ENABLED FlowGetTaskInfo
          /\ ~ENABLED FlowGetFileInfo

C20_Witness ==
    /\ flowPc = "incomplete"
    /\ flowTaskInfo = "TaskProcessing"
    /\ flowCalls = SubSeq(SampleOrder, 1, Len(SampleOrder) - 1)

(* C21: the constructor makes exactly one authentication exchange and nothing
   else; when it succeeds the client exists and holds the server's non-empty
   token with expiry = construction time + lifetime (in ms), when it fails the
   constructor raises the server's error and no client exists; no operation is
   ever called on a client that has not authenticated. *)
C21_EagerAuthentication ==
    /\ call.op = "__init__"
       => /\ Len(call.reqs) = 1
          /\ IsAuthRequest(call.reqs[1])
          /\ call.preToken = "" /\ call.preExpire = InitialExpire
          /\ call.resps[1].status = StatusOK
             => /\ call.result.kind = "return"
                /\ phase = "ready"
                /\ access_token = call.resps[1].data.accessToken
                /\ access_token # ""
                /\ expire_time = call.at + call.resps[1].data.expiresIn * MsPerSec
          /\ call.resps[1].status # StatusOK
             => /\ call.result = RaiseCodeMessage(call.resps[1].code, call.resps[1].msg)
                /\ phase = "none"
                /\ access_token = "" /\ expire_time = InitialExpire
    /\ call.op \notin {"none", "__init__"}
       => phase = "ready" /\ call.preToken # "" /\ call.preExpire >= 0
    /\ phase = "none" => call.op \in {"none", "__init__"}

C21_Witness ==
    /\ call.op = "__init__"
    /\ call.at > 0
    /\ call.resps[1].status = StatusOK
    /\ call.resps[1].data.expiresIn > 0
    /\ phase = "ready"
    /\ expire_time = call.at + MsPerSec

(* C22: when the authentication exchange of a refresh gets a non-200 answer,
   the call raises the server's error and the cached token and expiry are the
   ones held before the call. *)
C22_FailedRefreshKeepsCache ==
    (/\ call.op \in {"refresh_access_token", "get_access_token"}
     /\ Len(call.resps) = 1
     /\ call.resps[1].status # StatusOK)
    => /\ call.result = RaiseCodeMessage(call.resps[1].code, call.resps[1].msg)
       /\ access_token = call.preToken
       /\ expire_time = call.preExpire

C22_Witness ==
    /\ call.op = "refresh_access_token"
    /\ call.resps[1].status # StatusOK
    /\ call.result.kind = "CPDFException"
    /\ access_token = call.preToken
    /\ access_token # ""
    /\ expire_time = call.preExpire
    /\ expire_time >= 0

====
